---- MODULE Spec2Model ----
(***************************************************************************)
(* The three facilitator signer adapters of src/src/wallet-account-evm-    *)
(* facilitator.js as one state machine.  An adapter is constructed over a  *)
(* wallet account; the caller invokes its seven operations, each an async  *)
(* function that runs up to its await, is suspended while the collaborator *)
(* (provider, contract handle, wallet account, module loader) works, and   *)
(* is resumed with the collaborator's answer.                              *)
(***************************************************************************)
EXTENDS Integers, Sequences, FiniteSets, Bags, TLC

(***************************************************************************)
(* JavaScript values.  A value carries its type, so that === (same type    *)
(* and same value) is record equality.                                     *)
(***************************************************************************)
Undefined == [t |-> "undefined"]
Str(s) == [t |-> "string", s |-> s]
Num(n) == [t |-> "number", n |-> n]
Bool(b) == [t |-> "boolean", b |-> b]
Arr(items) == [t |-> "array", items |-> items]

\* A property read: a property the object does not have reads as undefined.
Get(obj, key) == IF key \in DOMAIN obj THEN obj[key] ELSE Undefined

\* Address strings are sequences of characters, so that case is observable.
UpperToLower ==
  [c \in {"A", "B", "C", "D", "E", "F"} |->
     CASE c = "A" -> "a" [] c = "B" -> "b" [] c = "C" -> "c"
       [] c = "D" -> "d" [] c = "E" -> "e" [] c = "F" -> "f"]

\* String.prototype.toLowerCase, character by character.
toLowerCase(s) ==
  [i \in DOMAIN s |-> IF s[i] \in DOMAIN UpperToLower THEN UpperToLower[s[i]] ELSE s[i]]

(***************************************************************************)
(* The bounds of the model.                                                *)
(***************************************************************************)
\* How many adapter calls may be pending (suspended at an await) at once.
MaxPending == 2

(***************************************************************************)
(* The classes and the wallet account they adapt.                          *)
(***************************************************************************)
WalletAccountEvmFacilitator == "WalletAccountEvmFacilitator"
WalletAccountEvmX402Facilitator == "WalletAccountEvmX402Facilitator"
FacilitatorEvmSignerAdapter == "FacilitatorEvmSignerAdapter"

Variants ==
  {WalletAccountEvmFacilitator, WalletAccountEvmX402Facilitator, FacilitatorEvmSignerAdapter}

\* The addresses a wallet account may have.
ADDRESS == <<"0", "x", "4", "0", "5", "C">>
PAYER_ADDRESS == <<"0", "x", "2", "D", "d", "6">>
OTHER_ADDRESS == <<"0", "x", "0", "0", "0", "1">>

AccountAddresses == {ADDRESS}

\* The network provider of a connected wallet account.
Provider == [t |-> "object", ref |-> "provider"]

\* A wallet account: its public address property, the private _address field
\* (a test double has none), the provider it is connected to (undefined when
\* it is not connected) and the signer _account, which knows the same
\* provider.
WalletAccount(address, hasPrivateAddress, connected) ==
  [address |-> Str(address),
   _address |-> IF hasPrivateAddress THEN Str(address) ELSE Undefined,
   _provider |-> IF connected THEN Provider ELSE Undefined,
   _account |-> [address |-> Str(address),
                 provider |-> IF connected THEN Provider ELSE Undefined]]

WalletAccounts ==
  {WalletAccount(a, p, c) : a \in AccountAddresses, p \in BOOLEAN, c \in BOOLEAN}

(***************************************************************************)
(* What one run of an async function, up to its next await, comes to: it   *)
(* throws, it returns, or it awaits a collaborator's answer to a request.  *)
(* trace holds the collaborator calls the run made and got answered        *)
(* synchronously.                                                          *)
(***************************************************************************)
NoError == [origin |-> "none", name |-> "", message |-> ""]
Throw(error, trace) == [k |-> "throw", error |-> error, value |-> Undefined, trace |-> trace]
Return(value, trace) == [k |-> "return", error |-> NoError, value |-> value, trace |-> trace]
Await(req, trace) == [k |-> "await", req |-> req, trace |-> trace]

\* A collaborator's answer: the promise resolves with a value or rejects.
Resolve(value) == [k |-> "resolved", value |-> value]
Reject(error) == [k |-> "rejected", error |-> error]

\* Reading a property of undefined, or spreading undefined.
TypeError(message) == [origin |-> "runtime", name |-> "TypeError", message |-> message]
\* new Error(message), thrown by the adapter itself.
Error(message) == [origin |-> "adapter", name |-> "Error", message |-> message]
\* A failure of a collaborator.
CollaboratorError(origin) == [origin |-> origin, name |-> "Error", message |-> "failed"]

(***************************************************************************)
(* The collaborators' requests.                                            *)
(***************************************************************************)
\* provider.getCode(address)
ProviderGetCode(address) ==
  [target |-> "provider", method |-> "getCode", args |-> <<address>>]
\* provider.waitForTransaction(hash)
ProviderWaitForTransaction(hash) ==
  [target |-> "provider", method |-> "waitForTransaction", args |-> <<hash>>]
\* new Contract(address, abi, runner)[functionName](...args)
ContractCall(address, abi, runner, functionName, args) ==
  [target |-> "contract", method |-> functionName, args |-> args,
   address |-> address, abi |-> abi, runner |-> runner]
\* account.sendTransaction(tx), of the wallet account or of its signer
SendTransaction(target, tx) ==
  [target |-> target, method |-> "sendTransaction", args |-> <<tx>>]
\* ethers' verifyTypedData(domain, types, message, signature)
EthersVerifyTypedData(domain, types, message, signature) ==
  [target |-> "ethers", method |-> "verifyTypedData",
   args |-> <<domain, types, message, signature>>]
\* import('ethers')
ImportEthers == [target |-> "loader", method |-> "import", args |-> <<"ethers">>]

\* One answered collaborator call.
Exchange(req, resp) == [req |-> req, resp |-> resp]

\* An object without one of its properties: a rest pattern, or a copy and a delete.
Omit(obj, key) == [k \in DOMAIN obj \ {key} |-> obj[k]]

\* A variant of the step below that throws an error of the adapter's in place
\* of the collaborator's.
Rethrow_wrapped(resp) ==
  Throw(Error("The request failed: " \o resp.error.message), <<>>)

\* A rejected await throws the rejection in the awaiting function, which
\* catches nothing: the function's promise rejects with the same error.
Rethrow(resp) == Throw(resp.error, <<>>)

(***************************************************************************)
(* class WalletAccountEvmFacilitator                                       *)
(***************************************************************************)
Facilitator_constructor(walletAccount) == [adaptee |-> walletAccount]

Facilitator_getAddresses(this) ==
  Return(Arr(<<Get(this.adaptee, "_address")>>), <<>>)

Facilitator_getCode(this, a) ==
  IF Get(this.adaptee, "_provider") = Undefined
    THEN Throw(TypeError("Cannot read properties of undefined (reading 'getCode')"), <<>>)
    ELSE Await(ProviderGetCode(a.address), <<>>)

\* A variant of the method below that reports absent code with an error.
Facilitator_getCode_resume_throws(resp) ==
  IF resp.k = "rejected" THEN Rethrow(resp)
  ELSE LET code == resp.value
       IN IF code = Str("0x") THEN Throw(Error("No code at the address."), <<>>)
          ELSE Return(code, <<>>)


Facilitator_getCode_resume(resp) ==
  IF resp.k = "rejected" THEN Rethrow(resp)
  ELSE LET code == resp.value
       IN Return(IF code = Str("0x") THEN Undefined ELSE code, <<>>)

\* A variant of the method below that binds the contract to the signer.
Facilitator_readContract_signing(this, a) ==
  LET args == IF "args" \notin DOMAIN a THEN <<>> ELSE a.args
  IN Await(ContractCall(a.address, a.abi, Get(this.adaptee, "_account"),
                        a.functionName, args), <<>>)


Facilitator_readContract(this, a) ==
  LET args == IF "args" \notin DOMAIN a THEN <<>> ELSE a.args
  IN Await(ContractCall(a.address, a.abi, Get(this.adaptee, "_provider"),
                        a.functionName, args), <<>>)

Facilitator_readContract_resume(resp) ==
  IF resp.k = "rejected" THEN Rethrow(resp) ELSE Return(resp.value, <<>>)

\* recovered is what ethers' verifyTypedData, a synchronous call, comes to.
Facilitator_verifyTypedData(this, a, recovered) ==
  LET typesWithoutPrimary == Omit(a.types, a.primaryType)
      call == Exchange(EthersVerifyTypedData(a.domain, typesWithoutPrimary,
                                             a.message, a.signature), recovered)
  IN IF recovered.k = "rejected" THEN Throw(recovered.error, <<call>>)
     ELSE Return(Bool(toLowerCase(recovered.value.s) = toLowerCase(a.address.s)),
                 <<call>>)

\* The objects verifyTypedData leaves behind: the caller's types, which the
\* rest pattern only reads, and the new object the pattern makes.
Facilitator_verifyTypedData_objects(a) ==
  [types |-> a.types, typesWithoutPrimary |-> Omit(a.types, a.primaryType)]

\* A variant of the method below that takes a missing args for none.
Facilitator_writeContract_defaulting(this, a) ==
  LET args == IF "args" \notin DOMAIN a THEN <<>> ELSE a.args
  IN Await(ContractCall(a.address, a.abi, Get(this.adaptee, "_account"),
                        a.functionName, args), <<>>)


Facilitator_writeContract(this, a) ==
  IF "args" \notin DOMAIN a
    THEN Throw(TypeError("Spread syntax requires ...iterable[Symbol.iterator] to be a function"), <<>>)
    ELSE Await(ContractCall(a.address, a.abi, Get(this.adaptee, "_account"),
                            a.functionName, a.args), <<>>)

Facilitator_writeContract_resume(resp) ==
  IF resp.k = "rejected" THEN Rethrow(resp)
  ELSE LET tx == resp.value IN Return(Get(tx, "hash"), <<>>)

Facilitator_sendTransaction(this, a) ==
  Await(SendTransaction("adaptee", [to |-> a.to, value |-> Num(0), data |-> a.data]), <<>>)

Facilitator_sendTransaction_resume(resp) ==
  IF resp.k = "rejected" THEN Rethrow(resp)
  ELSE Return(Get(resp.value, "hash"), <<>>)

Facilitator_waitForTransactionReceipt(this, a) ==
  IF Get(this.adaptee, "_provider") = Undefined
    THEN Throw(TypeError("Cannot read properties of undefined (reading 'waitForTransaction')"), <<>>)
    ELSE Await(ProviderWaitForTransaction(a.hash), <<>>)

\* A variant of the method below that compares the status with ==, not ===.
Facilitator_waitForTransactionReceipt_resume_loose(resp) ==
  IF resp.k = "rejected" THEN Rethrow(resp)
  ELSE LET receipt == resp.value
       IN Return([status |-> IF Get(receipt, "status") \in {Num(1), Str("1")}
                               THEN Str("success") ELSE Str("reverted")], <<>>)

Facilitator_waitForTransactionReceipt_resume(resp) ==
  IF resp.k = "rejected" THEN Rethrow(resp)
  ELSE LET receipt == resp.value
       IN Return([status |-> IF Get(receipt, "status") = Num(1)
                               THEN Str("success") ELSE Str("reverted")], <<>>)

(***************************************************************************)
(* class WalletAccountEvmX402Facilitator                                   *)
(***************************************************************************)
X402Facilitator_constructor(walletAccount) == [_adaptee |-> walletAccount]

X402Facilitator_getAddresses(this) ==
  Return(Arr(<<Get(this._adaptee, "address")>>), <<>>)

X402Facilitator_getCode(this, a) ==
  IF Get(this._adaptee, "_provider") = Undefined
    THEN Throw(TypeError("Cannot read properties of undefined (reading 'getCode')"), <<>>)
    ELSE Await(ProviderGetCode(a.address), <<>>)

\* A variant of the method below that takes '0x0' for empty code as well.
X402Facilitator_getCode_resume_zero(resp) ==
  IF resp.k = "rejected" THEN Rethrow(resp)
  ELSE LET code == resp.value
       IN Return(IF code \in {Str("0x"), Str("0x0")} THEN Undefined ELSE code, <<>>)

X402Facilitator_getCode_resume(resp) ==
  IF resp.k = "rejected" THEN Rethrow(resp)
  ELSE LET code == resp.value
       IN Return(IF code = Str("0x") THEN Undefined ELSE code, <<>>)

X402Facilitator_readContract(this, a) ==
  LET args == IF "args" \notin DOMAIN a THEN <<>> ELSE a.args
  IN Await(ContractCall(a.address, a.abi, Get(this._adaptee, "_provider"),
                        a.functionName, args), <<>>)

X402Facilitator_readContract_resume(resp) ==
  IF resp.k = "rejected" THEN Rethrow(resp) ELSE Return(resp.value, <<>>)

\* The function first awaits the dynamic import of ethers.
X402Facilitator_verifyTypedData(this, a) == Await(ImportEthers, <<>>)

\* A variant of the method below that folds the recovered address to lower case.
X402Facilitator_verifyTypedData_resume_folded(a, resp, recovered) ==
  IF resp.k = "rejected" THEN Rethrow(resp)
  ELSE LET call == Exchange(EthersVerifyTypedData(a.domain, a.types,
                                                  a.message, a.signature), recovered)
       IN IF recovered.k = "rejected" THEN Throw(recovered.error, <<call>>)
          ELSE Return(Str(toLowerCase(recovered.value.s)), <<call>>)

\* A variant of the method below that asks the wrapped account to verify.
X402Facilitator_verifyTypedData_resume_delegating(a, resp, recovered) ==
  IF resp.k = "rejected" THEN Rethrow(resp)
  ELSE LET call == Exchange([target |-> "adaptee", method |-> "verifyTypedData",
                             args |-> <<[domain |-> a.domain, types |-> a.types,
                                         message |-> a.message], a.signature>>],
                            recovered)
       IN IF recovered.k = "rejected" THEN Throw(recovered.error, <<call>>)
          ELSE Return(recovered.value, <<call>>)

\* recovered is what ethers' verifyTypedData, a synchronous call, comes to.
X402Facilitator_verifyTypedData_resume(a, resp, recovered) ==
  IF resp.k = "rejected" THEN Rethrow(resp)
  ELSE LET call == Exchange(EthersVerifyTypedData(a.domain, a.types,
                                                  a.message, a.signature), recovered)
       IN IF recovered.k = "rejected" THEN Throw(recovered.error, <<call>>)
          ELSE Return(recovered.value, <<call>>)

\* The objects verifyTypedData leaves behind: the caller's types, handed to
\* ethers as it is; ethers reads it.
X402Facilitator_verifyTypedData_objects(a) == [types |-> a.types]

\* A variant of the method below that binds the contract to the provider.
X402Facilitator_writeContract_readonly(this, a) ==
  IF "args" \notin DOMAIN a
    THEN Throw(TypeError("Spread syntax requires ...iterable[Symbol.iterator] to be a function"), <<>>)
    ELSE Await(ContractCall(a.address, a.abi, Get(this._adaptee, "_provider"),
                            a.functionName, a.args), <<>>)


X402Facilitator_writeContract(this, a) ==
  IF "args" \notin DOMAIN a
    THEN Throw(TypeError("Spread syntax requires ...iterable[Symbol.iterator] to be a function"), <<>>)
    ELSE Await(ContractCall(a.address, a.abi, Get(this._adaptee, "_account"),
                            a.functionName, a.args), <<>>)

X402Facilitator_writeContract_resume(resp) ==
  IF resp.k = "rejected" THEN Rethrow(resp)
  ELSE LET tx == resp.value IN Return(Get(tx, "hash"), <<>>)

X402Facilitator_sendTransaction(this, a) ==
  Await(SendTransaction("adaptee", [to |-> a.to, value |-> Num(0), data |-> a.data]), <<>>)

\* A variant of the method below that returns the account's whole result.
X402Facilitator_sendTransaction_resume_whole(resp) ==
  IF resp.k = "rejected" THEN Rethrow(resp)
  ELSE Return(resp.value, <<>>)


X402Facilitator_sendTransaction_resume(resp) ==
  IF resp.k = "rejected" THEN Rethrow(resp)
  ELSE Return(Get(resp.value, "hash"), <<>>)

X402Facilitator_waitForTransactionReceipt(this, a) ==
  IF Get(this._adaptee, "_provider") = Undefined
    THEN Throw(TypeError("Cannot read properties of undefined (reading 'waitForTransaction')"), <<>>)
    ELSE Await(ProviderWaitForTransaction(a.hash), <<>>)

X402Facilitator_waitForTransactionReceipt_resume(resp) ==
  IF resp.k = "rejected" THEN Rethrow(resp)
  ELSE LET receipt == resp.value
       IN Return([status |-> IF Get(receipt, "status") = Num(1)
                               THEN Str("success") ELSE Str("reverted")], <<>>)


(***************************************************************************)
(* class FacilitatorEvmSignerAdapter extends WalletAccountEvm: the adapter *)
(* is the wallet account.                                                  *)
(***************************************************************************)
SignerAdapter_constructor(walletAccount) == walletAccount

SignerAdapter_getAddresses(this) ==
  Return(Arr(<<Get(this._account, "address")>>), <<>>)

\* A variant of the method below that binds the contract to the signer.
SignerAdapter_readContract_signing(this, a) ==
  IF Get(this, "_provider") = Undefined
    THEN Throw(Error("The wallet must be connected to a provider to read contracts."), <<>>)
    ELSE LET fnArgs == IF "args" \notin DOMAIN a THEN <<>> ELSE a.args
         IN Await(ContractCall(a.address, a.abi, this._account,
                               a.functionName, fnArgs), <<>>)


SignerAdapter_readContract(this, a) ==
  IF Get(this, "_provider") = Undefined
    THEN Throw(Error("The wallet must be connected to a provider to read contracts."), <<>>)
    ELSE LET fnArgs == IF "args" \notin DOMAIN a THEN <<>> ELSE a.args
         IN Await(ContractCall(a.address, a.abi, this._provider,
                               a.functionName, fnArgs), <<>>)

SignerAdapter_readContract_resume(resp) ==
  IF resp.k = "rejected" THEN Rethrow(resp) ELSE Return(resp.value, <<>>)

\* A variant of the method below that compares the addresses as they are.
SignerAdapter_verifyTypedData_exact(this, a, recovered) ==
  LET typesWithoutEIP712Domain == Omit(a.types, "EIP712Domain")
      call == Exchange(EthersVerifyTypedData(a.domain, typesWithoutEIP712Domain,
                                             a.message, a.signature), recovered)
  IN IF recovered.k = "rejected" THEN Throw(recovered.error, <<call>>)
     ELSE Return(Bool(recovered.value.s = a.address.s), <<call>>)

\* recovered is what ethers' verifyTypedData, a synchronous call, comes to.
SignerAdapter_verifyTypedData(this, a, recovered) ==
  LET typesWithoutEIP712Domain == Omit(a.types, "EIP712Domain")
      call == Exchange(EthersVerifyTypedData(a.domain, typesWithoutEIP712Domain,
                                             a.message, a.signature), recovered)
  IN IF recovered.k = "rejected" THEN Throw(recovered.error, <<call>>)
     ELSE LET recoveredAddress == recovered.value
          IN Return(Bool(toLowerCase(recoveredAddress.s) = toLowerCase(a.address.s)),
                    <<call>>)

\* A variant of the definition below in which the entry is deleted from the
\* caller's object, not from a copy of it.
SignerAdapter_verifyTypedData_objects_inplace(a) ==
  LET aliased == [types |-> a.types, typesWithoutEIP712Domain |-> a.types]
  IN [types |-> Omit(aliased.types, "EIP712Domain"),
      typesWithoutEIP712Domain |-> Omit(aliased.typesWithoutEIP712Domain, "EIP712Domain")]

\* The objects verifyTypedData leaves behind: the caller's types and the copy
\* { ...types }, from which alone EIP712Domain is deleted.
SignerAdapter_verifyTypedData_objects(a) ==
  LET copied == [types |-> a.types, typesWithoutEIP712Domain |-> a.types]
  IN [copied EXCEPT !.typesWithoutEIP712Domain = Omit(@, "EIP712Domain")]


SignerAdapter_writeContract(this, a) ==
  IF Get(this._account, "provider") = Undefined
    THEN Throw(Error("The wallet must be connected to a provider to write contracts."), <<>>)
  ELSE IF "args" \notin DOMAIN a
    THEN Throw(TypeError("Spread syntax requires ...iterable[Symbol.iterator] to be a function"), <<>>)
    ELSE Await(ContractCall(a.address, a.abi, this._account,
                            a.functionName, a.args), <<>>)

\* A variant of the method below that returns the submitted transaction itself.
SignerAdapter_writeContract_resume_whole(resp) ==
  IF resp.k = "rejected" THEN Rethrow(resp)
  ELSE LET tx == resp.value IN Return(tx, <<>>)


SignerAdapter_writeContract_resume(resp) ==
  IF resp.k = "rejected" THEN Rethrow(resp)
  ELSE LET tx == resp.value IN Return(Get(tx, "hash"), <<>>)

\* A variant of the method below without its guard.
SignerAdapter_sendTransaction_unguarded(this, a) ==
  Await(SendTransaction("_account", [to |-> a.to, data |-> a.data]), <<>>)


SignerAdapter_sendTransaction(this, a) ==
  IF Get(this._account, "provider") = Undefined
    THEN Throw(Error("The wallet must be connected to a provider to send transactions."), <<>>)
    ELSE Await(SendTransaction("_account", [to |-> a.to, data |-> a.data]), <<>>)

SignerAdapter_sendTransaction_resume(resp) ==
  IF resp.k = "rejected" THEN Rethrow(resp)
  ELSE LET tx == resp.value IN Return(Get(tx, "hash"), <<>>)

SignerAdapter_waitForTransactionReceipt(this, a) ==
  IF Get(this, "_provider") = Undefined
    THEN Throw(Error("The wallet must be connected to a provider to wait for transaction receipts."), <<>>)
    ELSE Await(ProviderWaitForTransaction(a.hash), <<>>)

SignerAdapter_waitForTransactionReceipt_resume(resp) ==
  IF resp.k = "rejected" THEN Rethrow(resp)
  ELSE LET receipt == resp.value
       IN Return([status |-> IF Get(receipt, "status") = Num(1)
                               THEN Str("success") ELSE Str("reverted")], <<>>)

SignerAdapter_getCode(this, a) ==
  IF Get(this, "_provider") = Undefined
    THEN Throw(Error("The wallet must be connected to a provider to get contract code."), <<>>)
    ELSE Await(ProviderGetCode(a.address), <<>>)

SignerAdapter_getCode_resume(resp) ==
  IF resp.k = "rejected" THEN Rethrow(resp)
  ELSE LET code == resp.value
       IN IF code = Str("0x") THEN Return(Undefined, <<>>) ELSE Return(code, <<>>)


(***************************************************************************)
(* The callers' arguments and the collaborators' answers.                  *)
(***************************************************************************)
CONTRACT_ADDRESS == Str("0xa460AEbc")
TX_HASH == Str("0xe60970cd")
ABI == "abi"

GetCodeArgs == {[address |-> CONTRACT_ADDRESS]}

\* args may be omitted.
ReadContractArgs ==
  {[address |-> CONTRACT_ADDRESS, abi |-> ABI, functionName |-> "balanceOf",
    args |-> <<Str("0xAccount")>>],
   [address |-> CONTRACT_ADDRESS, abi |-> ABI, functionName |-> "totalSupply"]}

WriteContractArgs ==
  {[address |-> CONTRACT_ADDRESS, abi |-> ABI, functionName |-> "transfer",
    args |-> <<Str("0xAccount"), Num(5)>>],
   [address |-> CONTRACT_ADDRESS, abi |-> ABI, functionName |-> "pause"]}

SendTransactionArgs ==
  {[to |-> CONTRACT_ADDRESS, data |-> Str(d)] : d \in {"0x1234", "0x"}}

WaitForTransactionReceiptArgs == {[hash |-> TX_HASH]}

\* The EIP-712 types a caller may name, each with its fields.
TypeDefinitions ==
  [EIP712Domain |-> <<"name", "version", "chainId">>,
   Message |-> <<"content">>,
   Person |-> <<"wallet">>]

TypesMaps ==
  {[n \in S |-> TypeDefinitions[n]] :
     S \in {{"Message"}, {"Message", "Person"}, {"EIP712Domain", "Message"},
            {"EIP712Domain", "Message", "Person"}}}

\* The claimed signer: the payer's address as checksummed, or in lower case.
ClaimedAddresses == {PAYER_ADDRESS, toLowerCase(PAYER_ADDRESS)}

VerifyTypedDataArgs ==
  {[address |-> Str(c), domain |-> "domain", types |-> ty, primaryType |-> "Message",
    message |-> "message", signature |-> "0xdeadbeef"] :
     c \in ClaimedAddresses, ty \in TypesMaps}

\* What ethers' verifyTypedData comes to: the recovered signer, in the case
\* the codec gives it, or a failure (a malformed signature).
RecoveredAddresses == {PAYER_ADDRESS, toLowerCase(PAYER_ADDRESS), OTHER_ADDRESS}

Recoveries ==
  {Resolve(Str(r)) : r \in RecoveredAddresses} \cup {Reject(CollaboratorError("ethers"))}

\* The provider's raw answers to getCode.
Codes == {"0x", "0x0", "0x00", "0x6080604052"}

\* The status a receipt may carry: 1, 0, another number, the string "1", none.
ReceiptStatuses == {Num(1), Num(0), Num(2), Str("1"), Undefined}

\* What a collaborator may answer to a request.
Responses(req) ==
  CASE req.target = "provider" /\ req.method = "getCode" ->
         {Resolve(Str(c)) : c \in Codes} \cup {Reject(CollaboratorError("provider"))}
    [] req.target = "provider" /\ req.method = "waitForTransaction" ->
         {Resolve([status |-> st]) : st \in ReceiptStatuses}
           \cup {Reject(CollaboratorError("provider"))}
    [] req.target = "contract" /\ req.runner = Undefined ->
         {Reject(CollaboratorError("contract"))}
    [] req.target = "contract" /\ req.runner = Provider ->
         {Resolve(Num(100)), Reject(CollaboratorError("contract"))}
    [] req.target = "contract" ->
         {Resolve([hash |-> TX_HASH, nonce |-> Num(7)]), Reject(CollaboratorError("contract"))}
    [] req.target \in {"adaptee", "_account"} ->
         {Resolve([hash |-> TX_HASH, fee |-> Num(100)]), Reject(CollaboratorError("account"))}
    [] req.target = "loader" -> {Resolve([t |-> "module", name |-> "ethers"])}

(***************************************************************************)
(* The state.                                                              *)
(***************************************************************************)
VARIABLES
  variant,   \* the class the adapter is an instance of
  wallet,    \* the wallet account the adapter was constructed over
  adapter,   \* the adapter's own fields
  calls,     \* the bag of the calls suspended at an await
  done       \* the call that completed last, as its caller sees it

vars == <<variant, wallet, adapter, calls, done>>

NoCall == [op |-> "none"]

\* The class's method, by the adapter's class.
Dispatch(facilitator, x402Facilitator, signerAdapter) ==
  CASE variant = WalletAccountEvmFacilitator -> facilitator
    [] variant = WalletAccountEvmX402Facilitator -> x402Facilitator
    [] variant = FacilitatorEvmSignerAdapter -> signerAdapter

Init ==
  /\ variant \in Variants
  /\ wallet \in WalletAccounts
  /\ adapter = Dispatch(Facilitator_constructor(wallet),
                        X402Facilitator_constructor(wallet),
                        SignerAdapter_constructor(wallet))
  /\ calls = EmptyBag
  /\ done = NoCall

\* The caller's argument object as a call of op leaves it.  The methods take
\* their arguments apart by destructuring, which writes nothing; verifyTypedData
\* goes on to work on its types.
ArgsAfter(op, a) ==
  IF op = "verifyTypedData"
    THEN [a EXCEPT !.types =
            Dispatch(Facilitator_verifyTypedData_objects(a),
                     X402Facilitator_verifyTypedData_objects(a),
                     SignerAdapter_verifyTypedData_objects(a)).types]
    ELSE a

\* What the caller sees of a completed call.
Completed(op, a, trace, step) ==
  [op |-> op, args |-> a, after |-> ArgsAfter(op, a), trace |-> trace,
   outcome |-> step.k, value |-> step.value, error |-> step.error]

\* A variant of the step below in which getCode answers from the last code it
\* returned for the same address, without asking the provider again.
Run_cached(op, a, step) ==
  /\ UNCHANGED <<variant, wallet, adapter>>
  /\ IF op = "getCode" /\ done.op = "getCode" /\ done.outcome = "return" /\ done.args = a
       THEN /\ done' = Completed(op, a, <<>>, Return(done.value, <<>>))
            /\ UNCHANGED calls
     ELSE IF step.k = "await"
       THEN /\ BagCardinality(calls) < MaxPending
            /\ calls' = calls (+) SetToBag({[op |-> op, args |-> a,
                                             trace |-> step.trace, req |-> step.req]})
            /\ UNCHANGED done
       ELSE /\ done' = Completed(op, a, step.trace, step)
            /\ UNCHANGED calls

\* A call of op with arguments a runs to step: it completes, or is suspended.
Run(op, a, step) ==
  /\ UNCHANGED <<variant, wallet, adapter>>
  /\ IF step.k = "await"
       THEN /\ BagCardinality(calls) < MaxPending
            /\ calls' = calls (+) SetToBag({[op |-> op, args |-> a,
                                             trace |-> step.trace, req |-> step.req]})
            /\ UNCHANGED done
       ELSE /\ done' = Completed(op, a, step.trace, step)
            /\ UNCHANGED calls

\* A variant of the step below in which the answer to c's request may end any
\* of the suspended calls.
Continue_crossed(c, resp, step) ==
  /\ UNCHANGED <<variant, wallet, adapter>>
  /\ \E d \in BagToSet(calls) :
       /\ calls' = calls (-) SetToBag({d})
       /\ done' = Completed(d.op, d.args,
                            d.trace \o <<Exchange(c.req, resp)>> \o step.trace, step)

\* The suspended call c gets the answer resp and runs to step, its end.
Continue(c, resp, step) ==
  /\ UNCHANGED <<variant, wallet, adapter>>
  /\ calls' = calls (-) SetToBag({c})
  /\ done' = Completed(c.op, c.args,
                       c.trace \o <<Exchange(c.req, resp)>> \o step.trace, step)

\* The suspended calls of op.
Suspended(op) == {c \in BagToSet(calls) : c.op = op}

(***************************************************************************)
(* The operations.                                                         *)
(***************************************************************************)
getAddresses ==
  Run("getAddresses", <<>>,
      Dispatch(Facilitator_getAddresses(adapter),
               X402Facilitator_getAddresses(adapter),
               SignerAdapter_getAddresses(adapter)))

getCode ==
  \E a \in GetCodeArgs :
    Run("getCode", a,
        Dispatch(Facilitator_getCode(adapter, a),
                 X402Facilitator_getCode(adapter, a),
                 SignerAdapter_getCode(adapter, a)))

getCode_resume ==
  \E c \in Suspended("getCode") :
    \E resp \in Responses(c.req) :
      Continue(c, resp,
               Dispatch(Facilitator_getCode_resume(resp),
                        X402Facilitator_getCode_resume(resp),
                        SignerAdapter_getCode_resume(resp)))

readContract ==
  \E a \in ReadContractArgs :
    Run("readContract", a,
        Dispatch(Facilitator_readContract(adapter, a),
                 X402Facilitator_readContract(adapter, a),
                 SignerAdapter_readContract(adapter, a)))

readContract_resume ==
  \E c \in Suspended("readContract") :
    \E resp \in Responses(c.req) :
      Continue(c, resp,
               Dispatch(Facilitator_readContract_resume(resp),
                        X402Facilitator_readContract_resume(resp),
                        SignerAdapter_readContract_resume(resp)))

verifyTypedData ==
  \E a \in VerifyTypedDataArgs :
    IF variant = WalletAccountEvmX402Facilitator
      THEN Run("verifyTypedData", a, X402Facilitator_verifyTypedData(adapter, a))
      ELSE \E recovered \in Recoveries :
             Run("verifyTypedData", a,
                 IF variant = WalletAccountEvmFacilitator
                   THEN Facilitator_verifyTypedData(adapter, a, recovered)
                   ELSE SignerAdapter_verifyTypedData(adapter, a, recovered))

verifyTypedData_resume ==
  \E c \in Suspended("verifyTypedData") :
    \E resp \in Responses(c.req), recovered \in Recoveries :
      Continue(c, resp, X402Facilitator_verifyTypedData_resume(c.args, resp, recovered))

writeContract ==
  \E a \in WriteContractArgs :
    Run("writeContract", a,
        Dispatch(Facilitator_writeContract(adapter, a),
                 X402Facilitator_writeContract(adapter, a),
                 SignerAdapter_writeContract(adapter, a)))

writeContract_resume ==
  \E c \in Suspended("writeContract") :
    \E resp \in Responses(c.req) :
      Continue(c, resp,
               Dispatch(Facilitator_writeContract_resume(resp),
                        X402Facilitator_writeContract_resume(resp),
                        SignerAdapter_writeContract_resume(resp)))

sendTransaction ==
  \E a \in SendTransactionArgs :
    Run("sendTransaction", a,
        Dispatch(Facilitator_sendTransaction(adapter, a),
                 X402Facilitator_sendTransaction(adapter, a),
                 SignerAdapter_sendTransaction(adapter, a)))

sendTransaction_resume ==
  \E c \in Suspended("sendTransaction") :
    \E resp \in Responses(c.req) :
      Continue(c, resp,
               Dispatch(Facilitator_sendTransaction_resume(resp),
                        X402Facilitator_sendTransaction_resume(resp),
                        SignerAdapter_sendTransaction_resume(resp)))

waitForTransactionReceipt ==
  \E a \in WaitForTransactionReceiptArgs :
    Run("waitForTransactionReceipt", a,
        Dispatch(Facilitator_waitForTransactionReceipt(adapter, a),
                 X402Facilitator_waitForTransactionReceipt(adapter, a),
                 SignerAdapter_waitForTransactionReceipt(adapter, a)))

\* A variant of the step below in which a suspended call may also give up
\* waiting and fail with a timeout of the adapter's.
waitForTransactionReceipt_resume_timeout ==
  \E c \in Suspended("waitForTransactionReceipt") :
    \/ \E resp \in Responses(c.req) :
         Continue(c, resp,
                  Dispatch(Facilitator_waitForTransactionReceipt_resume(resp),
                           X402Facilitator_waitForTransactionReceipt_resume(resp),
                           SignerAdapter_waitForTransactionReceipt_resume(resp)))
    \/ /\ UNCHANGED <<variant, wallet, adapter>>
       /\ calls' = calls (-) SetToBag({c})
       /\ done' = Completed(c.op, c.args, c.trace,
                            Throw(Error("Timed out waiting for the receipt."), <<>>))


waitForTransactionReceipt_resume ==
  \E c \in Suspended("waitForTransactionReceipt") :
    \E resp \in Responses(c.req) :
      Continue(c, resp,
               Dispatch(Facilitator_waitForTransactionReceipt_resume(resp),
                        X402Facilitator_waitForTransactionReceipt_resume(resp),
                        SignerAdapter_waitForTransactionReceipt_resume(resp)))

Next ==
  \/ getAddresses
  \/ getCode
  \/ getCode_resume
  \/ readContract
  \/ readContract_resume
  \/ verifyTypedData
  \/ verifyTypedData_resume
  \/ writeContract
  \/ writeContract_resume
  \/ sendTransaction
  \/ sendTransaction_resume
  \/ waitForTransactionReceipt
  \/ waitForTransactionReceipt_resume

Spec == Init /\ [][Next]_vars


(***************************************************************************)
(* What the claims speak of.                                               *)
(***************************************************************************)
\* The calls of ethers' verifyTypedData (the signer-recovery routine) in a trace.
IsRecovery(e) == e.req.target = "ethers" /\ e.req.method = "verifyTypedData"
Recoveries_of(trace) == SelectSeq(trace, IsRecovery)

\* The calls of a send primitive in a trace.
IsSend(e) == e.req.method = "sendTransaction" /\ e.req.target \in {"adaptee", "_account"}
Sends_of(trace) == SelectSeq(trace, IsSend)

\* A completed call of op.
Did(op) == done.op = op
Returned(op) == done.op = op /\ done.outcome = "return"

\* Two strings that are equal up to the case of their letters.
CasePairs ==
  {<<"A", "a">>, <<"B", "b">>, <<"C", "c">>, <<"D", "d">>, <<"E", "e">>, <<"F", "f">>}
SameIgnoringCase(s, u) ==
  /\ Len(s) = Len(u)
  /\ \A i \in 1 .. Len(s) :
       s[i] = u[i] \/ <<s[i], u[i]>> \in CasePairs \/ <<u[i], s[i]>> \in CasePairs

\* What `if (isValid)` takes for true.
Truthy(v) ==
  CASE v.t = "boolean" -> v.b
    [] v.t = "string" -> v.s # <<>>
    [] v.t = "undefined" -> FALSE
    [] OTHER -> TRUE

(***************************************************************************)
(* C1: in every adapter variant, when the caller's types map holds the     *)
(* reserved EIP712Domain entry, verifyTypedData calls the recovery routine *)
(* with the types map without that entry.                                  *)
(***************************************************************************)
C1_RecoveryWithoutDomainEntry ==
  (Did("verifyTypedData") /\ "EIP712Domain" \in DOMAIN done.args.types) =>
    \A k \in DOMAIN Recoveries_of(done.trace) :
      Recoveries_of(done.trace)[k].req.args[2] = Omit(done.args.types, "EIP712Domain")

(***************************************************************************)
(* C2: verifyTypedData hands the recovery routine every entry of the       *)
(* caller's types map other than EIP712Domain, unchanged; the entry named  *)
(* by primaryType is among them.                                           *)
(***************************************************************************)
C2_OtherEntriesKept ==
  Did("verifyTypedData") =>
    \A k \in DOMAIN Recoveries_of(done.trace) :
      LET passed == Recoveries_of(done.trace)[k].req.args[2]
      IN /\ \A n \in DOMAIN done.args.types \ {"EIP712Domain"} :
              n \in DOMAIN passed /\ passed[n] = done.args.types[n]
         /\ done.args.primaryType \in DOMAIN done.args.types =>
              done.args.primaryType \in DOMAIN passed

(***************************************************************************)
(* C3: in every adapter variant, over a connected wallet,                  *)
(* sendTransaction({to, data}) calls the account's send primitive exactly  *)
(* once, with the request {to, value: 0, data}.                            *)
(***************************************************************************)
C3_SendsZeroValue ==
  (Did("sendTransaction") /\ wallet._provider # Undefined) =>
    /\ Len(Sends_of(done.trace)) = 1
    /\ Sends_of(done.trace)[1].req.args =
         <<[to |-> done.args.to, value |-> Num(0), data |-> done.args.data]>>

C5_X402ResolvesToBoolean ==
  (variant = WalletAccountEvmX402Facilitator /\ Returned("verifyTypedData")) =>
    \A k \in DOMAIN Recoveries_of(done.trace) :
      ~SameIgnoringCase(Recoveries_of(done.trace)[k].resp.value.s, done.args.address.s)
        => done.value.t = "boolean" /\ ~Truthy(done.value)

C7_ReceiptStatusMapped ==
  Returned("waitForTransactionReceipt") =>
    /\ Len(done.trace) = 1
    /\ done.trace[1].req = ProviderWaitForTransaction(done.args.hash)
    /\ done.value \in {[status |-> Str("success")], [status |-> Str("reverted")]}
    /\ done.value.status = Str("success") <=>
         Get(done.trace[1].resp.value, "status") = Num(1)

\* The string "1" is not the number 1: reverted.
C7_Witness ==
  /\ Returned("waitForTransactionReceipt")
  /\ done.trace[1].resp.value.status = Str("1")
  /\ done.value = [status |-> Str("reverted")]

(***************************************************************************)
(* C8: getCode({address}) returns undefined exactly when the provider      *)
(* answers '0x', and the provider's string itself for any other answer,    *)
(* '0x0' and '0x00' among them.                                            *)
(***************************************************************************)
C8_UndefinedIffEmptyCode ==
  Returned("getCode") =>
    /\ Len(done.trace) = 1
    /\ done.trace[1].req = ProviderGetCode(done.args.address)
    /\ done.value = Undefined <=> done.trace[1].resp.value = Str("0x")
    /\ done.trace[1].resp.value # Str("0x") => done.value = done.trace[1].resp.value

\* '0x0' is returned as it is.
C8_Witness ==
  /\ Returned("getCode")
  /\ done.trace[1].resp.value = Str("0x0")
  /\ done.value = Str("0x0")

(***************************************************************************)
(* C9: in every adapter variant, getAddresses() returns one element, the   *)
(* wallet account's address property, and calls no collaborator.           *)
(***************************************************************************)
C9_OneAddress ==
  Did("getAddresses") =>
    /\ done.outcome = "return"
    /\ done.value = Arr(<<wallet.address>>)
    /\ done.trace = <<>>

(***************************************************************************)
(* C10: WalletAccountEvmFacilitator.verifyTypedData calls the wallet       *)
(* account's own verifyTypedData with ({domain, types, message},           *)
(* signature), types as the caller gave them, and returns its boolean.     *)
(***************************************************************************)
C10_DelegatesToAdaptee ==
  (variant = WalletAccountEvmFacilitator /\ Did("verifyTypedData")) =>
    \E k \in DOMAIN done.trace :
      /\ done.trace[k].req.target = "adaptee"
      /\ done.trace[k].req.method = "verifyTypedData"
      /\ done.trace[k].req.args =
           <<[domain |-> done.args.domain, types |-> done.args.types,
              message |-> done.args.message], done.args.signature>>
      /\ done.trace[k].resp.k = "resolved" => done.value = done.trace[k].resp.value

(***************************************************************************)
(* C11: WalletAccountEvmX402Facilitator.verifyTypedData calls no method of *)
(* the wrapped account, its verifyTypedData included, and none of its      *)
(* provider: it loads the codec and calls the codec's recovery routine,    *)
(* nothing else.                                                           *)
(***************************************************************************)
C11_X402VerifiesWithCodecOnly ==
  variant = WalletAccountEvmX402Facilitator =>
    /\ \A c \in Suspended("verifyTypedData") : c.trace = <<>> /\ c.req = ImportEthers
    /\ Did("verifyTypedData") =>
         /\ \A k \in DOMAIN done.trace :
              /\ done.trace[k].req.target \in {"loader", "ethers"}
              /\ done.trace[k].req.target = "ethers" =>
                   done.trace[k].req.method = "verifyTypedData"
         /\ Len(Recoveries_of(done.trace)) = 1

\* A verification that came back with the codec's answer.
C11_Witness ==
  /\ variant = WalletAccountEvmX402Facilitator
  /\ Returned("verifyTypedData")
  /\ Len(done.trace) = 2
  /\ done.trace[1].req = ImportEthers
  /\ done.trace[2].req.target = "ethers"

(***************************************************************************)
(* C12: after construction over a wallet account w, the _adaptee field of  *)
(* WalletAccountEvmFacilitator and of WalletAccountEvmX402Facilitator is   *)
(* w, and it stays w whatever is called.                                   *)
(***************************************************************************)
C12_AdapteeFieldIsWallet ==
  variant \in {WalletAccountEvmFacilitator, WalletAccountEvmX402Facilitator} =>
    Get(adapter, "_adaptee") = wallet

\* The arguments a contract function is to be called with: the caller's, in
\* their order, and none when the caller gave none.
GivenOrNone(a) == IF "args" \in DOMAIN a THEN a.args ELSE <<>>

(***************************************************************************)
(* C13: readContract({address, abi, functionName, args}) binds the         *)
(* contract to the wallet's read-only provider, never to its signer, calls *)
(* the function named functionName with the caller's arguments in order    *)
(* (with none when args is omitted), at most once and exactly once over a  *)
(* wallet that has a provider, and returns the value that call resolved    *)
(* to, unchanged.                                                          *)
(***************************************************************************)
C13_ReadsThroughProvider ==
  /\ \A c \in Suspended("readContract") :
       /\ c.trace = <<>>
       /\ c.req = ContractCall(c.args.address, c.args.abi, wallet._provider,
                               c.args.functionName, GivenOrNone(c.args))
       /\ c.req.runner # wallet._account
  /\ Did("readContract") =>
       /\ Len(done.trace) <= 1
       /\ wallet._provider # Undefined => Len(done.trace) = 1
       /\ \A k \in DOMAIN done.trace :
            /\ done.trace[k].req =
                 ContractCall(done.args.address, done.args.abi, wallet._provider,
                              done.args.functionName, GivenOrNone(done.args))
            /\ done.trace[k].req.runner # wallet._account
       /\ done.outcome = "return" =>
            /\ Len(done.trace) = 1
            /\ done.trace[1].resp.k = "resolved"
            /\ done.value = done.trace[1].resp.value

\* Both shapes of call came back with the contract's value: balanceOf with its
\* one argument in the state itself, totalSupply without arguments.
C13_Witness ==
  /\ Returned("readContract")
  /\ "args" \notin DOMAIN done.args
  /\ done.trace[1].req.args = <<>>
  /\ done.trace[1].req.runner = Provider
  /\ done.value = Num(100)
  /\ \E c \in Suspended("readContract") :
       "args" \in DOMAIN c.args /\ c.req.args = c.args.args /\ c.req.args # <<>>

\* The submission a writeContract call with arguments a makes.
Submission(a) ==
  ContractCall(a.address, a.abi, wallet._account, a.functionName, a.args)

\* A writeContract call hands back a hash in this step.
ReturnsHash ==
  /\ done' # done
  /\ done'.op = "writeContract"
  /\ done'.outcome = "return"

(***************************************************************************)
(* C14: writeContract binds the contract to the account's signer, not to   *)
(* the read-only provider, and calls the named function once with the      *)
(* caller's arguments.  It hands back a hash only in a step that ends a    *)
(* call suspended on that submission, and the hash is the one the          *)
(* submission resolved to: never before the submission completed, never    *)
(* without one.                                                            *)
(***************************************************************************)
C14_HashOnlyAfterSubmission ==
  [][ /\ \A c \in Suspended("writeContract") :
           /\ c.trace = <<>>
           /\ c.req = Submission(c.args)
           /\ c.req.runner # wallet._provider
      /\ ReturnsHash =>
           /\ \E c \in Suspended("writeContract") :
                /\ calls' = calls (-) SetToBag({c})
                /\ done'.args = c.args
                /\ done'.trace[1].req = c.req
           /\ Len(done'.trace) = 1
           /\ done'.trace[1].req = Submission(done'.args)
           /\ done'.trace[1].resp.k = "resolved"
           /\ done'.value = done'.trace[1].resp.value.hash
    ]_vars

\* A hash came back from a completed submission of transfer.
C14_Witness ==
  /\ Returned("writeContract")
  /\ done.value = TX_HASH
  /\ done.trace[1].req.runner = wallet._account
  /\ done.trace[1].req.method = "transfer"
  /\ done.trace[1].resp.k = "resolved"

\* The operations that end in one awaited collaborator call.
AwaitingOperations ==
  {"getCode", "readContract", "writeContract", "sendTransaction",
   "waitForTransactionReceipt"}

(***************************************************************************)
(* C15: when the collaborator call of getCode, readContract,               *)
(* writeContract, sendTransaction or waitForTransactionReceipt fails, the  *)
(* operation fails with that very error, it has called the collaborator    *)
(* once and not again, and it returns no value.                            *)
(***************************************************************************)
C15_FailurePropagatesUnmodified ==
  done.op \in AwaitingOperations =>
    /\ Len(done.trace) <= 1
    /\ \A k \in DOMAIN done.trace :
         done.trace[k].resp.k = "rejected" =>
           /\ done.outcome = "throw"
           /\ done.error = done.trace[k].resp.error
           /\ done.value = Undefined

\* A submission that failed in the contract call, and the caller got that
\* error.
C15_Witness ==
  /\ Did("writeContract")
  /\ done.outcome = "throw"
  /\ Len(done.trace) = 1
  /\ done.trace[1].resp = Reject(CollaboratorError("contract"))
  /\ done.error = CollaboratorError("contract")

\* Where a collaborator's error comes from: the wallet account, the provider,
\* a contract call through either, the codec.
CollaboratorOrigins == {"account", "provider", "contract", "ethers"}

\* The last call failed.
Failed == done # NoCall /\ done.outcome = "throw"

\* The failure of the last call is a collaborator's, passed on as it was.
FailedInCollaborator ==
  /\ done.error.origin \in CollaboratorOrigins
  /\ \E k \in DOMAIN done.trace :
       done.trace[k].resp.k = "rejected" /\ done.error = done.trace[k].resp.error

\* FacilitatorEvmSignerAdapter's own error: no provider.
FailedInGuard ==
  /\ variant = FacilitatorEvmSignerAdapter
  /\ wallet._provider = Undefined
  /\ done.op \in AwaitingOperations
  /\ done.error.origin = "adapter"
  /\ done.error.name = "Error"
  /\ done.trace = <<>>

\* The runtime's TypeError, for spreading a missing args or for calling a
\* method of a missing provider.
FailedInRuntime ==
  /\ done.error.origin = "runtime"
  /\ done.error.name = "TypeError"
  /\ done.trace = <<>>
  /\ \/ done.op = "writeContract" /\ "args" \notin DOMAIN done.args
     \/ /\ variant # FacilitatorEvmSignerAdapter
        /\ wallet._provider = Undefined
        /\ done.op \in {"getCode", "waitForTransactionReceipt"}

(***************************************************************************)
(* C16, as first stated: in every variant and for every operation, the     *)
(* adapter raises no error of its own; a failure the caller sees comes     *)
(* from the wallet account, the provider or the codec.  Read in the        *)
(* claim's favour: the runtime's TypeError for a missing provider or a     *)
(* missing args is put down to what the caller or the wallet handed over,  *)
(* and only an error the adapter made with `new Error` counts as its own.  *)
(***************************************************************************)
C16_NoErrorOfItsOwn ==
  Failed => done.error.origin \in CollaboratorOrigins \cup {"runtime"}

(***************************************************************************)
(* C16, amended: a failure the caller sees is a collaborator's error       *)
(* passed on as it was, or the error FacilitatorEvmSignerAdapter throws    *)
(* itself over a wallet without a provider, or the runtime's TypeError for *)
(* a writeContract without args or for getCode and                         *)
(* waitForTransactionReceipt of a wrapping class over a wallet without a   *)
(* provider.  The undefined of getCode for absent code is a result, not a  *)
(* failure.                                                                *)
(***************************************************************************)
C16_OwnErrorsOnlyWithoutProviderOrArgs ==
  /\ Failed => FailedInCollaborator \/ FailedInGuard \/ FailedInRuntime
  /\ (Did("getCode") /\ done.trace # <<>> /\
      done.trace[1].resp = Resolve(Str("0x"))) =>
       done.outcome = "return" /\ done.value = Undefined /\ done.error = NoError

\* FacilitatorEvmSignerAdapter refused to read a contract without a provider.
C16_Witness ==
  /\ Did("readContract")
  /\ done.outcome = "throw"
  /\ FailedInGuard
  /\ done.error =
       Error("The wallet must be connected to a provider to read contracts.")

(***************************************************************************)
(* C17: sendTransaction returns the hash field of what the account's send  *)
(* primitive resolved to and nothing else of it (the fee is dropped), and  *)
(* it returns only once that one send has completed.                       *)
(***************************************************************************)
C17_ReturnsHashOfSend ==
  /\ \A c \in Suspended("sendTransaction") : c.trace = <<>> /\ IsSend([req |-> c.req])
  /\ Returned("sendTransaction") =>
       /\ Len(done.trace) = 1
       /\ IsSend(done.trace[1])
       /\ done.trace[1].resp.k = "resolved"
       /\ done.value = done.trace[1].resp.value.hash
       /\ done.value.t = "string"

\* The account answered {hash, fee}; the caller got the hash.
C17_Witness ==
  /\ Returned("sendTransaction")
  /\ done.trace[1].resp.value = [hash |-> TX_HASH, fee |-> Num(100)]
  /\ done.value = TX_HASH

(***************************************************************************)
(* C18: writeContract called without args fails, and the contract function *)
(* is never called: nothing is submitted.  readContract called without     *)
(* args calls the function with no arguments.                              *)
(***************************************************************************)
C18_ArgsRequiredForWritesOnly ==
  /\ \A c \in Suspended("writeContract") : "args" \in DOMAIN c.args
  /\ (Did("writeContract") /\ "args" \notin DOMAIN done.args) =>
       done.outcome = "throw" /\ done.trace = <<>>
  /\ \A c \in Suspended("readContract") :
       "args" \notin DOMAIN c.args =>
         c.req.target = "contract" /\ c.req.method = c.args.functionName /\ c.req.args = <<>>
  /\ (Did("readContract") /\ "args" \notin DOMAIN done.args) =>
       \A k \in DOMAIN done.trace :
         /\ done.trace[k].req.target = "contract"
         /\ done.trace[k].req.method = done.args.functionName
         /\ done.trace[k].req.args = <<>>

\* pause() without args failed in the runtime before any submission, while a
\* totalSupply() without args is out at the contract.
C18_Witness ==
  /\ Did("writeContract")
  /\ "args" \notin DOMAIN done.args
  /\ done.outcome = "throw"
  /\ done.error.name = "TypeError"
  /\ done.trace = <<>>
  /\ \E c \in Suspended("readContract") :
       "args" \notin DOMAIN c.args /\ c.req.args = <<>>

\* A getCode call ends in this step without a provider round-trip of its own.
GetCodeEndsUnasked ==
  /\ calls' = calls
  /\ done' # done
  /\ done'.op = "getCode"

\* A getCode call ends in this step on a provider's answer.
GetCodeEndsAnswered ==
  /\ BagCardinality(calls') < BagCardinality(calls)
  /\ done'.op = "getCode"

(***************************************************************************)
(* C19: the adapter caches nothing and keeps no state per call.  Its state *)
(* is the wallet account it was constructed over, in every step.  Each     *)
(* getCode call makes a provider round-trip of its own, the same address   *)
(* asked before or being asked or not: no getCode call ends with a result  *)
(* without one (it can only fail at once, for want of a provider), and a   *)
(* call that ends on an answer takes one suspended getCode call with it,   *)
(* whose request was for the call's own address, and its result is that    *)
(* answer's.                                                               *)
(***************************************************************************)
C19_NoCacheNoCallState ==
  [][ /\ adapter = Dispatch(Facilitator_constructor(wallet),
                            X402Facilitator_constructor(wallet),
                            SignerAdapter_constructor(wallet))
      /\ adapter' = adapter
      /\ wallet' = wallet
      /\ \A c \in Suspended("getCode") :
           c.trace = <<>> /\ c.req = ProviderGetCode(c.args.address)
      /\ GetCodeEndsUnasked =>
           /\ wallet._provider = Undefined
           /\ done'.outcome = "throw"
           /\ done'.trace = <<>>
      /\ GetCodeEndsAnswered =>
           /\ \E c \in Suspended("getCode") :
                /\ calls' = calls (-) SetToBag({c})
                /\ done'.args = c.args
           /\ Len(done'.trace) = 1
           /\ done'.trace[1].req = ProviderGetCode(done'.args.address)
           /\ LET resp == done'.trace[1].resp
              IN /\ resp.k = "rejected" =>
                      done'.outcome = "throw" /\ done'.error = resp.error
                 /\ resp.k = "resolved" =>
                      /\ done'.outcome = "return"
                      /\ done'.value =
                           IF resp.value = Str("0x") THEN Undefined ELSE resp.value
    ]_vars

\* One getCode call has returned the code of an address while another call
\* for the same address is out at the provider.
C19_Witness ==
  /\ Returned("getCode")
  /\ done.value = Str("0x6080604052")
  /\ \E c \in Suspended("getCode") :
       c.args = done.args /\ c.req = done.trace[1].req
  /\ adapter = Dispatch(Facilitator_constructor(wallet),
                        X402Facilitator_constructor(wallet),
                        SignerAdapter_constructor(wallet))

\* req is the request a call of op with arguments a waits on.
OwnRequest(op, a, req) ==
  CASE op = "getCode" -> req = ProviderGetCode(a.address)
    [] op = "waitForTransactionReceipt" -> req = ProviderWaitForTransaction(a.hash)
    [] op \in {"readContract", "writeContract"} ->
         /\ req.target = "contract"
         /\ req.address = a.address
         /\ req.method = a.functionName
         /\ req.args = GivenOrNone(a)
    [] op = "sendTransaction" ->
         /\ IsSend([req |-> req])
         /\ req.args[1].to = a.to
         /\ req.args[1].data = a.data
    [] op = "verifyTypedData" -> req = ImportEthers
    [] OTHER -> FALSE

\* What a call of op comes to on the answers in its trace, the last of which
\* decides: a function of the call's own exchanges and of nothing else.
ResultOn(op, trace) ==
  LET resp == trace[Len(trace)].resp
  IN IF resp.k = "rejected" THEN [outcome |-> "throw", value |-> Undefined, error |-> resp.error]
     ELSE [outcome |-> "return", error |-> NoError,
           value |->
             CASE op = "getCode" ->
                    IF resp.value = Str("0x") THEN Undefined ELSE resp.value
               [] op = "waitForTransactionReceipt" ->
                    [status |-> IF Get(resp.value, "status") = Num(1)
                                  THEN Str("success") ELSE Str("reverted")]
               [] op \in {"writeContract", "sendTransaction"} -> resp.value.hash
               [] OTHER -> resp.value]

\* A collaborator's answer arrives in this step.
AnswerArrives == BagCardinality(calls') < BagCardinality(calls)

(***************************************************************************)
(* C20: whatever calls are pending together and in whatever order their    *)
(* answers arrive, an answer ends exactly one pending call, the one whose  *)
(* request it answers, and leaves the others pending as they were; the     *)
(* call's result is a function of its own arguments' request and of the    *)
(* answers it got itself, so neither another call's answer nor the order   *)
(* of arrival can change it.                                               *)
(***************************************************************************)
C20_AnswersReachTheirOwnCall ==
  [][ /\ \A c \in BagToSet(calls) : OwnRequest(c.op, c.args, c.req)
      /\ AnswerArrives =>
           /\ \E c \in BagToSet(calls) :
                /\ calls' = calls (-) SetToBag({c})
                /\ done'.op = c.op
                /\ done'.args = c.args
                /\ done'.trace[1].req = c.req
                /\ done'.trace[1].resp \in Responses(c.req)
           /\ OwnRequest(done'.op, done'.args, done'.trace[1].req)
           /\ [outcome |-> done'.outcome, value |-> done'.value,
               error |-> done'.error] = ResultOn(done'.op, done'.trace)
    ]_vars

\* Two calls are pending together, a getCode and a sendTransaction, after the
\* receipt of a third call has arrived and ended that call and no other.
C20_Witness ==
  /\ Returned("waitForTransactionReceipt")
  /\ done.value = [status |-> Str("success")]
  /\ Suspended("getCode") # {}
  /\ Suspended("sendTransaction") # {}
  /\ BagCardinality(calls) = 2

\* A waitForTransactionReceipt call ends in this step.
WaitEnds ==
  /\ <<calls, done>>' # <<calls, done>>
  /\ done'.op = "waitForTransactionReceipt"
  /\ BagCardinality(calls') <= BagCardinality(calls)

\* A suspended waitForTransactionReceipt call stops waiting in this step.
StopsWaiting(c) == CopiesIn(c, calls') < CopiesIn(c, calls)

(***************************************************************************)
(* C21: waitForTransactionReceipt gives no result before the provider has  *)
(* reported on the requested hash.  A call that ends without a report has  *)
(* failed at once, for want of a provider, and never waited.  A call that  *)
(* waits is suspended on provider.waitForTransaction(hash) and stops       *)
(* waiting only in the step in which the provider's report on that very    *)
(* request arrives: the adapter has no timeout of its own.  In that step   *)
(* the call completes: with {status: 'success'} for a receipt of status 1, *)
(* {status: 'reverted'} for any other receipt, and with the provider's     *)
(* error if the provider failed.                                           *)
(***************************************************************************)
C21_CompletesOnProvidersReport ==
  [][ /\ \A c \in Suspended("waitForTransactionReceipt") :
           /\ c.trace = <<>>
           /\ c.req = ProviderWaitForTransaction(c.args.hash)
           /\ StopsWaiting(c) =>
                /\ calls' = calls (-) SetToBag({c})
                /\ done'.op = c.op
                /\ done'.args = c.args
                /\ Len(done'.trace) = 1
                /\ done'.trace[1].req = c.req
      /\ WaitEnds =>
           \/ /\ calls' = calls
              /\ wallet._provider = Undefined
              /\ done'.outcome = "throw"
              /\ done'.trace = <<>>
           \/ /\ \E c \in Suspended("waitForTransactionReceipt") : StopsWaiting(c)
              /\ Len(done'.trace) = 1
              /\ done'.trace[1].req = ProviderWaitForTransaction(done'.args.hash)
              /\ LET report == done'.trace[1].resp
                 IN /\ report.k = "rejected" =>
                         done'.outcome = "throw" /\ done'.error = report.error
                    /\ report.k = "resolved" =>
                         /\ done'.outcome = "return"
                         /\ done'.value =
                              [status |-> IF Get(report.value, "status") = Num(1)
                                            THEN Str("success") ELSE Str("reverted")]
    ]_vars

\* A call has completed on a receipt of status 0 while a second call for the
\* same hash is still waiting for its own report.
C21_Witness ==
  /\ Returned("waitForTransactionReceipt")
  /\ done.trace[1].resp = Resolve([status |-> Num(0)])
  /\ done.value = [status |-> Str("reverted")]
  /\ \E c \in Suspended("waitForTransactionReceipt") : c.args = done.args

\* The operations that are to broadcast nothing.
ReadingOperations ==
  {"getAddresses", "getCode", "readContract", "verifyTypedData",
   "waitForTransactionReceipt"}

\* A request that can broadcast a transaction: a call of the send primitive,
\* or a call of a contract function through the account's signer.
Broadcasts(req) ==
  \/ req.method = "sendTransaction" /\ req.target \in {"adaptee", "_account"}
  \/ req.target = "contract" /\ req.runner = wallet._account

(***************************************************************************)
(* C22: getAddresses, getCode, readContract, verifyTypedData and           *)
(* waitForTransactionReceipt never call the account's send primitive and   *)
(* never call a contract through its signer, in whatever sequence and      *)
(* mixture they are called: no request of such a call, answered or         *)
(* pending, can broadcast a transaction.  Requests that can come from      *)
(* writeContract and sendTransaction only.                                 *)
(***************************************************************************)
C22_OnlyWritesBroadcast ==
  /\ \A c \in BagToSet(calls) :
       /\ c.op \in ReadingOperations =>
            /\ ~Broadcasts(c.req)
            /\ \A k \in DOMAIN c.trace : ~Broadcasts(c.trace[k].req)
       /\ Broadcasts(c.req) => c.op \in {"writeContract", "sendTransaction"}
  /\ (done # NoCall /\ done.op \in ReadingOperations) =>
       \A k \in DOMAIN done.trace : ~Broadcasts(done.trace[k].req)

\* A contract was read through the provider while a getCode call and a
\* waitForTransactionReceipt call are out at the provider.
C22_Witness ==
  /\ Returned("readContract")
  /\ done.trace[1].req.runner = Provider
  /\ ~Broadcasts(done.trace[1].req)
  /\ Suspended("getCode") # {}
  /\ Suspended("waitForTransactionReceipt") # {}

(***************************************************************************)
(* C23: in every variant verifyTypedData leaves the caller's arguments as  *)
(* they were.  After the call the caller's types map has every entry it    *)
(* had before, with the same fields, EIP712Domain and the entry of         *)
(* primaryType among them, and domain, message and the rest are the same;  *)
(* so the object as the call left it is the object the caller passed, and  *)
(* a second call with it is the same call.                                 *)
(***************************************************************************)
C23_ArgumentsUnchanged ==
  Did("verifyTypedData") =>
    /\ DOMAIN done.after.types = DOMAIN done.args.types
    /\ \A n \in DOMAIN done.args.types : done.after.types[n] = done.args.types[n]
    /\ done.after.domain = done.args.domain
    /\ done.after.message = done.args.message
    /\ done.after = done.args

\* FacilitatorEvmSignerAdapter recovered the signer with types that lack
\* EIP712Domain, and the caller's types still have the entry and the entry of
\* primaryType.
C23_Witness ==
  /\ variant = FacilitatorEvmSignerAdapter
  /\ Returned("verifyTypedData")
  /\ "EIP712Domain" \in DOMAIN done.args.types
  /\ "EIP712Domain" \notin DOMAIN Recoveries_of(done.trace)[1].req.args[2]
  /\ Recoveries_of(done.trace)[1].req.args[2] =
       SignerAdapter_verifyTypedData_objects(done.args).typesWithoutEIP712Domain
  /\ "EIP712Domain" \in DOMAIN done.after.types
  /\ done.args.primaryType \in DOMAIN done.after.types

\* What each guarded operation of FacilitatorEvmSignerAdapter says it needs a
\* provider for.
NeedsProviderTo ==
  [readContract |-> "read contracts.",
   writeContract |-> "write contracts.",
   sendTransaction |-> "send transactions.",
   waitForTransactionReceipt |-> "wait for transaction receipts.",
   getCode |-> "get contract code."]

(***************************************************************************)
(* C24: over a wallet without a provider, readContract, writeContract,     *)
(* sendTransaction, waitForTransactionReceipt and getCode of               *)
(* FacilitatorEvmSignerAdapter each fail with the adapter's 'The wallet    *)
(* must be connected to a provider to ...' error before any collaborator   *)
(* is called: no call is ever suspended on a request, so no contract call  *)
(* is dispatched and no transaction is sent.                               *)
(***************************************************************************)
C24_SignerAdapterRefusesWithoutProvider ==
  (variant = FacilitatorEvmSignerAdapter /\ wallet._provider = Undefined) =>
    /\ \A c \in BagToSet(calls) : c.op \notin AwaitingOperations
    /\ (done # NoCall /\ done.op \in AwaitingOperations) =>
         /\ done.outcome = "throw"
         /\ done.trace = <<>>
         /\ done.error =
              Error("The wallet must be connected to a provider to "
                      \o NeedsProviderTo[done.op])

\* sendTransaction was refused.
C24_Witness ==
  /\ variant = FacilitatorEvmSignerAdapter
  /\ wallet._provider = Undefined
  /\ Did("sendTransaction")
  /\ done.outcome = "throw"
  /\ done.error.origin = "adapter"
  /\ done.error.message =
       "The wallet must be connected to a provider to send transactions."
  /\ calls = EmptyBag

\* The operations the three classes are to agree on.
SharedOperations ==
  {"getCode", "readContract", "writeContract", "waitForTransactionReceipt"}

\* How a call of op with arguments a starts in each of the three classes, each
\* constructed over the wallet.
StartsOf(op, a) ==
  LET facilitator == Facilitator_constructor(wallet)
      x402Facilitator == X402Facilitator_constructor(wallet)
      signerAdapter == SignerAdapter_constructor(wallet)
  IN CASE op = "getCode" ->
            <<Facilitator_getCode(facilitator, a),
              X402Facilitator_getCode(x402Facilitator, a),
              SignerAdapter_getCode(signerAdapter, a)>>
       [] op = "readContract" ->
            <<Facilitator_readContract(facilitator, a),
              X402Facilitator_readContract(x402Facilitator, a),
              SignerAdapter_readContract(signerAdapter, a)>>
       [] op = "writeContract" ->
            <<Facilitator_writeContract(facilitator, a),
              X402Facilitator_writeContract(x402Facilitator, a),
              SignerAdapter_writeContract(signerAdapter, a)>>
       [] op = "waitForTransactionReceipt" ->
            <<Facilitator_waitForTransactionReceipt(facilitator, a),
              X402Facilitator_waitForTransactionReceipt(x402Facilitator, a),
              SignerAdapter_waitForTransactionReceipt(signerAdapter, a)>>

\* How a call of op ends on the answer resp in each of the three classes.
EndsOf(op, resp) ==
  CASE op = "getCode" ->
         <<Facilitator_getCode_resume(resp),
           X402Facilitator_getCode_resume(resp),
           SignerAdapter_getCode_resume(resp)>>
    [] op = "readContract" ->
         <<Facilitator_readContract_resume(resp),
           X402Facilitator_readContract_resume(resp),
           SignerAdapter_readContract_resume(resp)>>
    [] op = "writeContract" ->
         <<Facilitator_writeContract_resume(resp),
           X402Facilitator_writeContract_resume(resp),
           SignerAdapter_writeContract_resume(resp)>>
    [] op = "waitForTransactionReceipt" ->
         <<Facilitator_waitForTransactionReceipt_resume(resp),
           X402Facilitator_waitForTransactionReceipt_resume(resp),
           SignerAdapter_waitForTransactionReceipt_resume(resp)>>

\* The three agree, and on what the call in the state did.
AllAre(steps, step) == \A i \in DOMAIN steps : steps[i] = step

(***************************************************************************)
(* C25: over a wallet with a provider, WalletAccountEvmFacilitator,        *)
(* WalletAccountEvmX402Facilitator and FacilitatorEvmSignerAdapter cannot  *)
(* be told apart on getCode, readContract, writeContract and               *)
(* waitForTransactionReceipt: whichever of them made the call in hand, the *)
(* other two, given the same arguments, issue the same collaborator        *)
(* request, and given the same answer come to the same result or failure.  *)
(***************************************************************************)
C25_VariantsAgreeWhenConnected ==
  wallet._provider # Undefined =>
    /\ \A c \in BagToSet(calls) :
         c.op \in SharedOperations =>
           AllAre(StartsOf(c.op, c.args), Await(c.req, <<>>))
    /\ (done # NoCall /\ done.op \in SharedOperations) =>
         LET ended == [k |-> done.outcome, error |-> done.error,
                       value |-> done.value, trace |-> <<>>]
         IN IF done.trace = <<>>
              THEN AllAre(StartsOf(done.op, done.args), ended)
              ELSE /\ AllAre(StartsOf(done.op, done.args),
                             Await(done.trace[1].req, <<>>))
                   /\ AllAre(EndsOf(done.op, done.trace[1].resp), ended)

\* WalletAccountEvmX402Facilitator submitted a transfer and returned its hash,
\* as the other two classes would have, and has a contract read pending.
C25_Witness ==
  /\ variant = WalletAccountEvmX402Facilitator
  /\ wallet._provider # Undefined
  /\ Returned("writeContract")
  /\ done.value = TX_HASH
  /\ AllAre(EndsOf("writeContract", done.trace[1].resp), Return(TX_HASH, <<>>))
  /\ Suspended("readContract") # {}

====
